---------------------------- MODULE Spec2Model ----------------------------
(***************************************************************************)
(* A model of write_to_bq/main.py: the Append Loader (writeDfToBq) and the *)
(* Merge Loader (writeDfToBq_with_merging) running against a BigQuery      *)
(* project that holds one destination table and its staging table.         *)
(*                                                                         *)
(* Python values are modelled with what the code can observe of them:      *)
(*   - a column list is either a Python list or a pandas Index (the result *)
(*     of DataFrame.select_dtypes(...).columns); "+" concatenates two      *)
(*     lists and is the element-wise, broadcasting string addition of      *)
(*     numpy object arrays as soon as one operand is an Index;             *)
(*   - strings are TLA+ strings, built with \o as the f-strings build them;*)
(*   - None is a record with some = FALSE.                                 *)
(* The warehouse is the environment: a job that was submitted is run by    *)
(* the Remote* actions, which choose its outcome.                          *)
(***************************************************************************)
EXTENDS Naturals, Sequences, FiniteSets, TLC

\* The largest number of loader invocations in one behaviour.
MaxCalls == 1

\* The programs that may call the loaders: each runs one invocation at a time.
Procs == {"p1", "p2"}

\* ------------------------------------------------------------------------
\* Inputs
\* ------------------------------------------------------------------------

\* A DataFrame column: its name, whether its dtype is float/int (what
\* select_dtypes(include=['float','int']) keeps) and whether its cells are
\* arrays (what BigQuery lands as a REPEATED field).
Col(n, num, rep) == [name |-> n, numeric |-> num, repeated |-> rep]

\* The DataFrames a caller may pass.
Datasets ==
    { << Col("id", FALSE, FALSE), Col("region", FALSE, FALSE), Col("amount", TRUE, FALSE) >>,
      << Col("id", FALSE, FALSE), Col("amount", TRUE, FALSE) >>,
      << Col("amount", TRUE, FALSE), Col("qty", TRUE, FALSE) >>,
      << Col("id", FALSE, FALSE), Col("tags", FALSE, TRUE), Col("amount", TRUE, FALSE) >>,
      << Col("id", FALSE, FALSE), Col("region", FALSE, FALSE) >> }

\* The cols_to_check lists a caller may pass (<<>>: the argument is left out).
KeyArgs == { <<>>, <<"id">>, <<"id", "region">> }

\* The cols_to_update lists a caller may pass (<<>>: the argument is left out).
UpdateArgs == { <<>>, <<"amount">> }

\* A BigQuery SchemaField: name and mode.
Field(n, m) == [name |-> n, mode |-> m]

\* The destination table as the warehouse may hold it before the first call:
\* absent, or present with one of these schemas.
NoTable == [exists |-> FALSE, fields |-> <<>>, rows |-> {}]

Table(fields) == [exists |-> TRUE, fields |-> fields, rows |-> {0}]

DestChoices ==
    { NoTable,
      Table(<< Field("id", "NULLABLE"), Field("region", "NULLABLE"), Field("amount", "NULLABLE") >>),
      Table(<< Field("id", "NULLABLE"), Field("tags", "REPEATED"), Field("amount", "NULLABLE") >>),
      Table(<< Field("ts", "NULLABLE") >>) }

project_id == "proj"

dataset_id == "ds"

table_id == "tbl"

job_id_prefix == "job"

\* ------------------------------------------------------------------------
\* Python values
\* ------------------------------------------------------------------------

None == [some |-> FALSE, fields |-> <<>>]

Some(fields) == [some |-> TRUE, fields |-> fields]

\* A Python list object; ref names the object it is ("caller": the list the
\* caller passed, "default": the function's default argument, "fresh": a
\* list built inside the call).
PyList(v, ref) == [kind |-> "list", v |-> v, ref |-> ref]

\* A pandas Index (always a new object).
PdIndex(v) == [kind |-> "Index", v |-> v, ref |-> "fresh"]

Names(cols) == [i \in 1..Len(cols) |-> cols[i].name]

Range(s) == { s[i] : i \in 1..Len(s) }

VARIABLES
    callers,         \* the programs that call the loaders in this run
    dest,            \* the destination table in the warehouse
    staging,         \* the table <table>_temptable in the warehouse
    calls,           \* invocations started so far
    appendJobs,      \* the Append Loader's load jobs, by invocation number
    pc,              \* each caller's position in its invocation
    inv,             \* each invocation's arguments
    callerLists,     \* the caller's own cols_to_check / cols_to_update list objects
    defaults,        \* the default argument objects of writeDfToBq_with_merging
    loc,             \* each invocation's local variables
    jobs,            \* each invocation's load, merge and delete jobs
    queryLog,        \* the statements each invocation passed to bq_client.query
    outcome,         \* what each invocation handed to its caller
    past             \* the invocations a caller that keeps its lists has made so far

vars == << callers, dest, staging, calls, appendJobs, pc, inv, callerLists, defaults,
           loc, jobs, queryLog, outcome, past >>


\* ------------------------------------------------------------------------
\* pandas / Python helpers
\* ------------------------------------------------------------------------

\* data.select_dtypes(exclude=['float','int']).columns
select_dtypes_exclude(data) ==
    LET keep(c) == ~c.numeric IN PdIndex(Names(SelectSeq(data, keep)))

\* data.select_dtypes(include=['float','int']).columns
select_dtypes_include(data) ==
    LET keep(c) == c.numeric IN PdIndex(Names(SelectSeq(data, keep)))

\* Two one-dimensional shapes broadcast when they are equal or one is 1.
CanBroadcast(x, y) == Len(x) = Len(y) \/ Len(x) = 1 \/ Len(y) = 1

\* The element-wise string addition of two object arrays (x + y).
ElementwiseAdd(x, y) ==
    IF Len(x) = Len(y) THEN [i \in 1..Len(x) |-> x[i] \o y[i]]
    ELSE IF Len(x) = 1 THEN [i \in 1..Len(y) |-> x[1] \o y[i]]
    ELSE [i \in 1..Len(x) |-> x[i] \o y[1]]

\* Whether a + b raises (ValueError: operands could not be broadcast together).
AddRaises(a, b) ==
    ~(a.kind = "list" /\ b.kind = "list") /\ ~CanBroadcast(a.v, b.v)

\* a + b for column lists: list + list concatenates; with an Index on either
\* side the Index's __add__ / __radd__ adds element by element.
PyAdd(a, b) ==
    IF a.kind = "list" /\ b.kind = "list"
    THEN PyList(a.v \o b.v, "fresh")
    ELSE PdIndex(ElementwiseAdd(a.v, b.v))

\* a += b with b a list: list.__iadd__ extends the same object in place, the
\* Index has no in-place add and a is rebound to a + b.
PyIAdd(a, b) ==
    IF a.kind = "list"
    THEN PyList(a.v \o b.v, a.ref)
    ELSE PdIndex(ElementwiseAdd(a.v, b.v))

\* list.remove(x): drops the first element equal to x.
RECURSIVE ListRemove(_, _)
ListRemove(s, x) ==
    IF s = <<>> THEN <<>>
    ELSE IF Head(s) = x THEN Tail(s)
    ELSE <<Head(s)>> \o ListRemove(Tail(s), x)

\* for field in fields_to_remove: table_schema.remove(field)
RECURSIVE RemoveEach(_, _)
RemoveEach(schema, fields_to_remove) ==
    IF fields_to_remove = <<>> THEN schema
    ELSE RemoveEach(ListRemove(schema, Head(fields_to_remove)), Tail(fields_to_remove))

\* PruneSchema that removes nothing: the live schema is declared as it is.
PruneSchemaKeepsAll(table_schema, data) == table_schema

\* The live schema without the fields that are no DataFrame column.
PruneSchema(table_schema, data) ==
    LET absent(f) == f.name \notin Range(Names(data))
        fields_to_remove == SelectSeq(table_schema, absent)
    IN  RemoveEach(table_schema, fields_to_remove)

\* sep.join(parts)
RECURSIVE Join(_, _)
Join(sep, parts) ==
    IF parts = <<>> THEN ""
    ELSE IF Len(parts) = 1 THEN parts[1]
    ELSE parts[1] \o sep \o Join(sep, Tail(parts))

\* str(n) for the error counts of the model.
Str(n) == CASE n = 0 -> "0" [] n = 1 -> "1" [] n = 2 -> "2" [] OTHER -> "3"

\* pd.to_datetime('now').strftime('%Y%m%d%H%M%S'): one reading of the clock.
Stamps == { "20240101000000" }

\* ------------------------------------------------------------------------
\* Initial state
\* ------------------------------------------------------------------------

NoJob == [id |-> "", state |-> "none", errors |-> <<>>, columns |-> <<>>, effect |-> "",
          read |-> {}, destination |-> "",
          config |-> [create_disposition |-> "", write_disposition |-> "",
                      schema |-> None, autodetect |-> "None"]]

NoLocals ==
    [cols_to_check |-> PyList(<<>>, "default"), cols_to_update |-> PyList(<<>>, "default"),
     table_schema |-> None, job_config |-> NoJob.config,
     all_fields |-> PyList(<<>>, "fresh"), temp_table_schema |-> <<>>,
     repeated_fields |-> <<>>,
     on_clause_parts |-> <<>>, on_clause |-> "", merge_query |-> ""]

NoJobs == [load |-> NoJob, merge |-> NoJob, delete |-> NoJob]

NoInv == [fn |-> "", data |-> <<>>, key_arg |-> <<>>, update_arg |-> <<>>, tag |-> 0]

NoOutcome == [kind |-> "none", message |-> "", handles |-> <<>>]

NoLists == [cols_to_check |-> <<>>, cols_to_update |-> <<>>]

\* The warehouse and the programs before the first call.
Start ==
    /\ dest \in DestChoices
    /\ staging = NoTable
    /\ calls = 0
    /\ appendJobs = <<>>
    /\ pc = [p \in Procs |-> "idle"]
    /\ inv = [p \in Procs |-> NoInv]
    /\ callerLists = [p \in Procs |-> NoLists]
    /\ defaults = NoLists
    /\ loc = [p \in Procs |-> NoLocals]
    /\ jobs = [p \in Procs |-> NoJobs]
    /\ queryLog = [p \in Procs |-> <<>>]
    /\ outcome = [p \in Procs |-> NoOutcome]
    /\ past = <<>>

\* One program calls the loaders: its invocations follow one another.
Init == callers = {"p1"} /\ Start

\* ------------------------------------------------------------------------
\* Names and texts built by the loaders
\* ------------------------------------------------------------------------

\* f"{project_id}.{dataset_id}.{table_id}"
TableName == project_id \o "." \o dataset_id \o "." \o table_id

\* f"{project_id}.{dataset_id}.{table_id}_temptable"
TempTableName == project_id \o "." \o dataset_id \o "." \o table_id \o "_temptable"

\* f"{job_id_prefix}_{now}" of the Append Loader
AppendJobId(ts) == job_id_prefix \o "_" \o ts

\* f"{job_id_prefix}_temptable_{now}"
LoadJobId(ts) == job_id_prefix \o "_temptable_" \o ts

\* MergeJobId with the suffix of the delete job.
MergeJobIdAsDelete(ts) == job_id_prefix \o "_delete_temp_data_" \o ts

\* f"{job_id_prefix}_merge_data_{now}"
MergeJobId(ts) == job_id_prefix \o "_merge_data_" \o ts

\* f"{job_id_prefix}_delete_temp_data_{now}"
DeleteJobId(ts) == job_id_prefix \o "_delete_temp_data_" \o ts

\* str([err for err in job.errors])
ErrorsRepr(errors) == "[" \o Join(", ", errors) \o "]"

\* The message of the Exception raised when a job's result() raised.
JobErrorMessage(job) ==
    "Se han detectado " \o Str(Len(job.errors)) \o " errores durante la ejecución de "
        \o job.id \o ":\n" \o ErrorsRepr(job.errors)

NoKeysMessage == "No columns to check were provided."

BroadcastMessage == "ValueError: operands could not be broadcast together"

NotFoundMessage == "NotFound: " \o TempTableName

\* f"target.{col} = source.{col}"
Equality(col) == "target." \o col \o " = source." \o col

\* OnClauseParts without "if col not in cols_to_check": a repeated key
\* column gets a second conjunct.
OnClausePartsRepeatsKeys(cols_to_check, repeated_fields) ==
    [i \in 1..Len(cols_to_check.v) |-> Equality(cols_to_check.v[i])]
    \o [i \in 1..Len(repeated_fields) |-> Equality(repeated_fields[i])]

\* [f"target.{col} = source.{col}" for col in cols_to_check]
\*   + [... for col in repeated_fields if col not in cols_to_check]
OnClauseParts(cols_to_check, repeated_fields) ==
    LET extra(col) == col \notin Range(cols_to_check.v)
    IN  [i \in 1..Len(cols_to_check.v) |-> Equality(cols_to_check.v[i])]
        \o [i \in 1..Len(SelectSeq(repeated_fields, extra)) |->
                Equality(SelectSeq(repeated_fields, extra)[i])]

\* f"{NL}AND ".join(on_clause_parts)
OnClause(on_clause_parts) == Join("\nAND ", on_clause_parts)

\* f', '.join([f'target.{col} = source.{col}' for col in cols_to_update])
UpdateSet(cols_to_update) ==
    Join(", ", [i \in 1..Len(cols_to_update.v) |-> Equality(cols_to_update.v[i])])

\* The backquote that quotes a table name in the SQL text (a TLA+ string
\* cannot hold the backquote character itself).
BQ == "'"

\* The merge script.
MergeQuery(on_clause, cols_to_update) ==
    "\n    BEGIN\n        BEGIN TRANSACTION;\n"
    \o "            MERGE INTO " \o BQ \o TableName \o BQ \o " AS target\n"
    \o "            USING " \o BQ \o TempTableName \o BQ \o " AS source\n"
    \o "            ON " \o on_clause \o "\n"
    \o "            WHEN MATCHED THEN\n"
    \o "            UPDATE SET\n"
    \o "                " \o UpdateSet(cols_to_update) \o "\n"
    \o "            WHEN NOT MATCHED THEN\n"
    \o "                INSERT ROW\n"
    \o "                ;\n"
    \o "        COMMIT TRANSACTION;\n"
    \o "        \n"
    \o "        EXCEPTION WHEN ERROR THEN\n"
    \o "            SELECT @@error.message;\n"
    \o "            ROLLBACK TRANSACTION;\n"
    \o "    END;"

\* f"DROP TABLE {BQ}{project_id}.{dataset_id}.{table_id}_temptable{BQ};"
DropQuery == "DROP TABLE " \o BQ \o TempTableName \o BQ \o ";"

\* ------------------------------------------------------------------------
\* The warehouse
\* ------------------------------------------------------------------------

\* The error lists a failed job may carry.
ErrorLists == { <<"{'reason': 'invalid'}">> }

\* The fields of the table a load job writes: a column takes the declared
\* field of its name, and is detected from the data otherwise.
LoadedFields(job) ==
    LET declared == job.config.schema.fields
        detect(c) == Field(c.name, IF c.repeated THEN "REPEATED" ELSE "NULLABLE")
        field(c) == IF \E i \in 1..Len(declared) : declared[i].name = c.name
                    THEN declared[CHOOSE i \in 1..Len(declared) : declared[i].name = c.name]
                    ELSE detect(c)
    IN  [i \in 1..Len(job.columns) |-> field(job.columns[i])]

\* A table after a load job wrote rows into it: a missing table is created
\* (CREATE_IF_NEEDED), WRITE_TRUNCATE replaces the table by the job's rows and
\* fields, WRITE_APPEND adds the rows to the ones the table holds.
LoadInto(table, job, rows) ==
    IF ~table.exists \/ job.config.write_disposition = "WRITE_TRUNCATE"
    THEN [exists |-> TRUE, fields |-> LoadedFields(job), rows |-> rows]
    ELSE [table EXCEPT !.rows = @ \cup rows]

NoDuplicates(s) == \A i, j \in 1..Len(s) : s[i] = s[j] => i = j

\* What the MERGE statement of an invocation needs to commit: both tables,
\* every column it names in both of them, a SET list that assigns each column
\* once, and (INSERT ROW) the same columns on both sides.
MergeCanCommit(p) ==
    LET src == Range(Names(staging.fields))
        tgt == Range(Names(dest.fields))
        named == Range(loc[p].cols_to_check.v) \cup Range(loc[p].cols_to_update.v)
                    \cup { f \in Range(loc[p].repeated_fields) : TRUE }
    IN  /\ dest.exists /\ staging.exists
        /\ named \subseteq (src \cap tgt)
        /\ loc[p].cols_to_update.v # <<>>
        /\ NoDuplicates(loc[p].cols_to_update.v)
        /\ Names(staging.fields) = Names(dest.fields)

\* ------------------------------------------------------------------------
\* The Merge Loader: writeDfToBq_with_merging
\* ------------------------------------------------------------------------

Raise(p, message) ==
    /\ outcome' = [outcome EXCEPT ![p] = [kind |-> "raised", message |-> message, handles |-> <<>>]]
    /\ pc' = [pc EXCEPT ![p] = "done"]

\* A caller calls writeDfToBq_with_merging(data, ..., cols_to_check, cols_to_update).
CallMerge(p) ==
    /\ p \in callers
    /\ pc[p] = "idle"
    /\ calls < MaxCalls
    /\ \E data \in Datasets, key \in KeyArgs, upd \in UpdateArgs :
        /\ inv' = [inv EXCEPT ![p] = [fn |-> "merge", data |-> data, key_arg |-> key,
                                      update_arg |-> upd, tag |-> calls + 1]]
        /\ callerLists' = [callerLists EXCEPT ![p] = [cols_to_check |-> key, cols_to_update |-> upd]]
    /\ calls' = calls + 1
    /\ pc' = [pc EXCEPT ![p] = "m_resolve"]
    /\ loc' = [loc EXCEPT ![p] = NoLocals]
    /\ jobs' = [jobs EXCEPT ![p] = NoJobs]
    /\ queryLog' = [queryLog EXCEPT ![p] = <<>>]
    /\ outcome' = [outcome EXCEPT ![p] = NoOutcome]
    /\ UNCHANGED << callers, past, dest, staging, appendJobs, defaults >>

\* The object bound to a list parameter: the caller's list, or the default.
BoundArg(passed, caller_list, default_list) ==
    IF passed # <<>> THEN PyList(caller_list, "caller") ELSE PyList(default_list, "default")

\* cols_to_check if len(cols_to_check) > 0 else data.select_dtypes(exclude=...).columns
ResolveCheck(arg, data) == IF Len(arg.v) > 0 THEN arg ELSE select_dtypes_exclude(data)

\* cols_to_update if len(cols_to_update) > 0 else data.select_dtypes(include=...).columns
ResolveUpdate(arg, data) == IF Len(arg.v) > 0 THEN arg ELSE select_dtypes_include(data)

\* MergeLoadJobConfig with the write disposition of the Append Loader: the
\* staging load adds its rows to the ones the staging table holds.
MergeLoadJobConfigAppends ==
    [create_disposition |-> "CREATE_IF_NEEDED", write_disposition |-> "WRITE_APPEND",
     schema |-> None, autodetect |-> "None"]

\* Lines 111-115: the load job configuration of the Merge Loader.
MergeLoadJobConfig ==
    [create_disposition |-> "CREATE_IF_NEEDED", write_disposition |-> "WRITE_TRUNCATE",
     schema |-> None, autodetect |-> "None"]

\* NoKeys without the check of line 102.
NoKeysNeverRaises(cols_to_check) == FALSE

\* len(cols_to_check) == 0
NoKeys(cols_to_check) == Len(cols_to_check.v) = 0

\* ResolveColumns with the check of line 102 made after the schema handling:
\* the error for no key column comes after get_table was called.
ResolveColumnsAfterFetch(p) ==
    /\ pc[p] = "m_resolve"
    /\ LET check == ResolveCheck(BoundArg(inv[p].key_arg, callerLists[p].cols_to_check,
                                          defaults.cols_to_check), inv[p].data)
           update == ResolveUpdate(BoundArg(inv[p].update_arg, callerLists[p].cols_to_update,
                                            defaults.cols_to_update), inv[p].data)
       IN  IF NoKeys(check)
           THEN /\ Raise(p, NoKeysMessage)
                /\ loc' = [loc EXCEPT ![p].cols_to_check = check,
                                      ![p].job_config = [MergeLoadJobConfig EXCEPT !.autodetect = "True"]]
           ELSE /\ loc' = [loc EXCEPT ![p].cols_to_check = check,
                                      ![p].cols_to_update = update,
                                      ![p].job_config = MergeLoadJobConfig]
                /\ pc' = [pc EXCEPT ![p] = "m_fetch"]
                /\ UNCHANGED outcome
    /\ UNCHANGED << callers, past, dest, staging, calls, appendJobs, inv, callerLists, defaults, jobs, queryLog >>

\* Lines 101-105: the key and update columns, or the error for no key column.
ResolveColumns(p) ==
    /\ pc[p] = "m_resolve"
    /\ LET check == ResolveCheck(BoundArg(inv[p].key_arg, callerLists[p].cols_to_check,
                                          defaults.cols_to_check), inv[p].data)
           update == ResolveUpdate(BoundArg(inv[p].update_arg, callerLists[p].cols_to_update,
                                            defaults.cols_to_update), inv[p].data)
       IN  IF NoKeys(check)
           THEN /\ Raise(p, NoKeysMessage)
                /\ loc' = [loc EXCEPT ![p].cols_to_check = check]
           ELSE /\ loc' = [loc EXCEPT ![p].cols_to_check = check,
                                      ![p].cols_to_update = update,
                                      ![p].job_config = MergeLoadJobConfig]
                /\ pc' = [pc EXCEPT ![p] = "m_fetch"]
                /\ UNCHANGED outcome
    /\ UNCHANGED << callers, past, dest, staging, calls, appendJobs, inv, callerLists, defaults, jobs, queryLog >>

\* The try block of the schema handling: the pruned live schema, declared on
\* the job with autodetect off.
SchemaFetched(config, table_schema) ==
    [config EXCEPT !.schema = table_schema, !.autodetect = "False"]

\* The except block of the schema handling.
SchemaNotFetched(config) == [config EXCEPT !.autodetect = "True"]

\* FetchSchema whose except clause re-raises: a failed get_table ends the
\* invocation.
FetchSchemaPropagates(p) ==
    /\ pc[p] = "m_fetch"
    /\ \/ /\ dest.exists
          /\ loc' = [loc EXCEPT ![p].table_schema = Some(PruneSchema(dest.fields, inv[p].data)),
                                ![p].job_config = SchemaFetched(@, Some(PruneSchema(dest.fields, inv[p].data)))]
          /\ pc' = [pc EXCEPT ![p] = "m_load_submit"]
          /\ UNCHANGED outcome
       \/ /\ Raise(p, "NotFound: " \o TableName)
          /\ UNCHANGED loc
    /\ UNCHANGED << callers, past, dest, staging, calls, appendJobs, inv, callerLists, defaults, jobs,
                    queryLog >>

\* Lines 117-134: get_table(table) answers, or raises (no such table, or
\* any other failure) and the bare except takes over.
FetchSchema(p) ==
    /\ pc[p] = "m_fetch"
    /\ \/ /\ dest.exists
          /\ loc' = [loc EXCEPT ![p].table_schema = Some(PruneSchema(dest.fields, inv[p].data)),
                                ![p].job_config = SchemaFetched(@, Some(PruneSchema(dest.fields, inv[p].data)))]
       \/ loc' = [loc EXCEPT ![p].job_config = SchemaNotFetched(@)]
    /\ pc' = [pc EXCEPT ![p] = "m_load_submit"]
    /\ UNCHANGED << callers, past, dest, staging, calls, appendJobs, inv, callerLists, defaults, jobs,
                    queryLog, outcome >>

\* [field.name for field in table_schema] if table_schema else data.columns
AllFields(table_schema, data) ==
    IF table_schema.some /\ table_schema.fields # <<>>
    THEN PyList(Names(table_schema.fields), "fresh")
    ELSE PdIndex(Names(data))

\* data.loc[:, all_fields]
Project(data, all_fields) ==
    [i \in 1..Len(all_fields.v) |->
        data[CHOOSE k \in 1..Len(data) : data[k].name = all_fields.v[i]]]

\* Lines 136-145: the load job of the staging table is created.
SubmitLoad(p) ==
    /\ pc[p] = "m_load_submit"
    /\ \E ts \in Stamps :
        LET all_fields == AllFields(loc[p].table_schema, inv[p].data)
        IN  /\ loc' = [loc EXCEPT ![p].all_fields = all_fields]
            /\ jobs' = [jobs EXCEPT ![p].load =
                            [id |-> LoadJobId(ts), state |-> "running", errors |-> <<>>,
                             columns |-> Project(inv[p].data, all_fields), effect |-> "",
                             read |-> {}, destination |-> TempTableName,
                             config |-> loc[p].job_config]]
    /\ pc' = [pc EXCEPT ![p] = "m_load_wait"]
    /\ UNCHANGED << callers, past, dest, staging, calls, appendJobs, inv, callerLists, defaults,
                    queryLog, outcome >>

\* The warehouse runs the staging load: WRITE_TRUNCATE replaces the table
\* (created if needed) by the job's rows, or the job fails.
RemoteLoadRun(p) ==
    /\ jobs[p].load.state = "running"
    /\ jobs[p].load.destination = TempTableName
    /\ \/ /\ staging' = LoadInto(staging, jobs[p].load, {inv[p].tag})
          /\ jobs' = [jobs EXCEPT ![p].load.state = "done", ![p].load.effect = "loaded"]
       \/ /\ \E errs \in ErrorLists :
                jobs' = [jobs EXCEPT ![p].load.state = "failed", ![p].load.errors = errs]
          /\ UNCHANGED staging
    /\ UNCHANGED << callers, past, dest, calls, appendJobs, pc, inv, callerLists, defaults, loc,
                    queryLog, outcome >>

\* AwaitLoad without its except clause: a failed load is not raised.
AwaitLoadIgnoresFailure(p) ==
    /\ pc[p] = "m_load_wait"
    /\ jobs[p].load.state \in {"done", "failed"}
    /\ pc' = [pc EXCEPT ![p] = "m_prepare"]
    /\ UNCHANGED << callers, past, dest, staging, calls, appendJobs, inv, callerLists, defaults, loc,
                    jobs, queryLog, outcome >>

\* Lines 147-152: load_job.result() returns, or raises and the handler
\* raises the load error.
AwaitLoad(p) ==
    /\ pc[p] = "m_load_wait"
    /\ jobs[p].load.state \in {"done", "failed"}
    /\ IF jobs[p].load.state = "failed"
       THEN Raise(p, JobErrorMessage(jobs[p].load))
       ELSE /\ pc' = [pc EXCEPT ![p] = "m_prepare"]
            /\ UNCHANGED outcome
    /\ UNCHANGED << callers, past, dest, staging, calls, appendJobs, inv, callerLists, defaults, loc,
                    jobs, queryLog >>

\* [field.name for field in temp_table_schema if field.mode == "REPEATED"]
RepeatedFields(temp_table_schema) ==
    LET repeated(f) == f.mode = "REPEATED" IN Names(SelectSeq(temp_table_schema, repeated))

\* [col for col in all_fields if col not in cols_to_check+cols_to_update]
Unclassified(all_fields, cols_to_check, cols_to_update) ==
    LET classified == PyAdd(cols_to_check, cols_to_update)
        missing(col) == col \notin Range(classified.v)
    IN  SelectSeq(all_fields.v, missing)

\* Whether line 162 raises: cols_to_check+cols_to_update (evaluated for each
\* column of all_fields), or the += of an Index and the list.
ExtendRaises(all_fields, cols_to_check, cols_to_update) ==
    IF all_fields.v # <<>> /\ AddRaises(cols_to_check, cols_to_update)
    THEN TRUE
    ELSE AddRaises(cols_to_update,
                   PyList(Unclassified(all_fields, cols_to_check, cols_to_update), "fresh"))

\* cols_to_update after line 162.
ExtendUpdate(all_fields, cols_to_check, cols_to_update) ==
    PyIAdd(cols_to_update,
           PyList(Unclassified(all_fields, cols_to_check, cols_to_update), "fresh"))

\* The list objects after an in-place change of the list a local names.
StoreUpdate(lists, value, ref) ==
    IF value.kind = "list" /\ value.ref = ref
    THEN [lists EXCEPT !.cols_to_update = value.v]
    ELSE lists

\* Lines 154-186: the staging table's schema is read, cols_to_update is
\* extended and the merge script is written.
PrepareMerge(p) ==
    /\ pc[p] = "m_prepare"
    /\ IF ~staging.exists
       THEN /\ Raise(p, NotFoundMessage)
            /\ UNCHANGED << loc, callerLists, defaults >>
       ELSE LET repeated_fields == RepeatedFields(staging.fields)
                check == loc[p].cols_to_check
                update == loc[p].cols_to_update
            IN  IF ExtendRaises(loc[p].all_fields, check, update)
                THEN /\ Raise(p, BroadcastMessage)
                     /\ loc' = [loc EXCEPT ![p].temp_table_schema = staging.fields,
                                               ![p].repeated_fields = repeated_fields]
                     /\ UNCHANGED << callerLists, defaults >>
                ELSE LET extended == ExtendUpdate(loc[p].all_fields, check, update)
                         parts == OnClauseParts(check, repeated_fields)
                     IN  /\ loc' = [loc EXCEPT ![p].temp_table_schema = staging.fields,
                                               ![p].repeated_fields = repeated_fields,
                                               ![p].cols_to_update = extended,
                                               ![p].on_clause_parts = parts,
                                               ![p].on_clause = OnClause(parts),
                                               ![p].merge_query = MergeQuery(OnClause(parts), extended)]
                         /\ callerLists' = [callerLists EXCEPT ![p] = StoreUpdate(@, extended, "caller")]
                         /\ defaults' = StoreUpdate(defaults, extended, "default")
                         /\ pc' = [pc EXCEPT ![p] = "m_merge_submit"]
                         /\ UNCHANGED outcome
    /\ UNCHANGED << callers, past, dest, staging, calls, appendJobs, inv, jobs, queryLog >>

\* bq_client.query(query, job_id, job_retry=None)
QueryJob(id) == [NoJob EXCEPT !.id = id, !.state = "running"]

\* Lines 188-192: the merge script is submitted.
SubmitMerge(p) ==
    /\ pc[p] = "m_merge_submit"
    /\ \E ts \in Stamps :
        /\ jobs' = [jobs EXCEPT ![p].merge = QueryJob(MergeJobId(ts))]
        /\ queryLog' = [queryLog EXCEPT ![p] =
                            Append(@, [kind |-> "merge", query |-> loc[p].merge_query,
                                       on_clause_parts |-> loc[p].on_clause_parts,
                                       cols_to_update |-> loc[p].cols_to_update.v])]
    /\ pc' = [pc EXCEPT ![p] = "m_merge_wait"]
    /\ UNCHANGED << callers, past, dest, staging, calls, appendJobs, inv, callerLists, defaults, loc, outcome >>

\* The warehouse runs the merge script: the MERGE commits; or it raises, the
\* script's EXCEPTION handler rolls back and the job ends without error; or
\* the job fails.
RemoteMergeRun(p) ==
    /\ jobs[p].merge.state = "running"
    /\ \/ /\ MergeCanCommit(p)
          /\ dest' = [dest EXCEPT !.rows = @ \cup staging.rows]
          /\ jobs' = [jobs EXCEPT ![p].merge.state = "done", ![p].merge.effect = "committed",
                                   ![p].merge.read = staging.rows]
       \/ /\ jobs' = [jobs EXCEPT ![p].merge.state = "done", ![p].merge.effect = "rolled back"]
          /\ UNCHANGED dest
       \/ /\ \E errs \in ErrorLists :
                jobs' = [jobs EXCEPT ![p].merge.state = "failed", ![p].merge.errors = errs]
          /\ UNCHANGED dest
    /\ UNCHANGED << callers, past, staging, calls, appendJobs, pc, inv, callerLists, defaults, loc,
                    queryLog, outcome >>

\* AwaitMerge without its except clause: a failed merge is not raised.
AwaitMergeIgnoresFailure(p) ==
    /\ pc[p] = "m_merge_wait"
    /\ jobs[p].merge.state \in {"done", "failed"}
    /\ pc' = [pc EXCEPT ![p] = "m_drop_submit"]
    /\ UNCHANGED << callers, past, dest, staging, calls, appendJobs, inv, callerLists, defaults, loc,
                    jobs, queryLog, outcome >>

\* AwaitMerge without the blocking merge_job.result(): the loader goes on
\* while the merge job is still running.
AwaitMergeNoWait(p) ==
    /\ pc[p] = "m_merge_wait"
    /\ jobs[p].merge.state \in {"running", "done", "failed"}
    /\ IF jobs[p].merge.state = "failed"
       THEN Raise(p, JobErrorMessage(jobs[p].merge))
       ELSE /\ pc' = [pc EXCEPT ![p] = "m_drop_submit"]
            /\ UNCHANGED outcome
    /\ UNCHANGED << callers, past, dest, staging, calls, appendJobs, inv, callerLists, defaults, loc,
                    jobs, queryLog >>

\* Lines 193-197: merge_job.result() returns, or raises and the handler
\* raises the merge error.
AwaitMerge(p) ==
    /\ pc[p] = "m_merge_wait"
    /\ jobs[p].merge.state \in {"done", "failed"}
    /\ IF jobs[p].merge.state = "failed"
       THEN Raise(p, JobErrorMessage(jobs[p].merge))
       ELSE /\ pc' = [pc EXCEPT ![p] = "m_drop_submit"]
            /\ UNCHANGED outcome
    /\ UNCHANGED << callers, past, dest, staging, calls, appendJobs, inv, callerLists, defaults, loc,
                    jobs, queryLog >>

\* Lines 199-204: the DROP TABLE of the staging table is submitted.
SubmitDrop(p) ==
    /\ pc[p] = "m_drop_submit"
    /\ \E ts \in Stamps :
        /\ jobs' = [jobs EXCEPT ![p].delete = QueryJob(DeleteJobId(ts))]
        /\ queryLog' = [queryLog EXCEPT ![p] =
                            Append(@, [kind |-> "drop", query |-> DropQuery,
                                       on_clause_parts |-> <<>>, cols_to_update |-> <<>>])]
    /\ pc' = [pc EXCEPT ![p] = "m_drop_wait"]
    /\ UNCHANGED << callers, past, dest, staging, calls, appendJobs, inv, callerLists, defaults, loc, outcome >>

\* RemoteDropRun where a failed drop takes the merged rows out of the
\* destination table again.
RemoteDropRunUndoesMerge(p) ==
    /\ jobs[p].delete.state = "running"
    /\ \/ /\ staging.exists
          /\ staging' = NoTable
          /\ jobs' = [jobs EXCEPT ![p].delete.state = "done", ![p].delete.effect = "dropped"]
          /\ UNCHANGED dest
       \/ /\ \E errs \in ErrorLists :
                jobs' = [jobs EXCEPT ![p].delete.state = "failed", ![p].delete.errors = errs]
          /\ dest' = [dest EXCEPT !.rows = @ \ staging.rows]
          /\ UNCHANGED staging
    /\ UNCHANGED << callers, past, calls, appendJobs, pc, inv, callerLists, defaults, loc,
                    queryLog, outcome >>

\* The warehouse runs the DROP TABLE: the staging table is gone, or the job
\* fails and the table is as it was.
RemoteDropRun(p) ==
    /\ jobs[p].delete.state = "running"
    /\ \/ /\ staging.exists
          /\ staging' = NoTable
          /\ jobs' = [jobs EXCEPT ![p].delete.state = "done", ![p].delete.effect = "dropped"]
       \/ /\ \E errs \in ErrorLists :
                jobs' = [jobs EXCEPT ![p].delete.state = "failed", ![p].delete.errors = errs]
          /\ UNCHANGED staging
    /\ UNCHANGED << callers, past, dest, calls, appendJobs, pc, inv, callerLists, defaults, loc,
                    queryLog, outcome >>

\* Lines 205-211: delete_job.result() returns and the three jobs are
\* returned, or it raises and the handler raises the cleanup error.
AwaitDrop(p) ==
    /\ pc[p] = "m_drop_wait"
    /\ jobs[p].delete.state \in {"done", "failed"}
    /\ IF jobs[p].delete.state = "failed"
       THEN Raise(p, JobErrorMessage(jobs[p].delete))
       ELSE /\ outcome' = [outcome EXCEPT ![p] =
                             [kind |-> "returned", message |-> "",
                              handles |-> << jobs[p].load.id, jobs[p].merge.id, jobs[p].delete.id >>]]
            /\ pc' = [pc EXCEPT ![p] = "done"]
    /\ UNCHANGED << callers, past, dest, staging, calls, appendJobs, inv, callerLists, defaults, loc,
                    jobs, queryLog >>

\* The caller has its result (or the exception) and is free to call again.
Finish(p) ==
    /\ pc[p] = "done"
    /\ pc' = [pc EXCEPT ![p] = "idle"]
    /\ inv' = [inv EXCEPT ![p] = NoInv]
    /\ callerLists' = [callerLists EXCEPT ![p] = NoLists]
    /\ loc' = [loc EXCEPT ![p] = NoLocals]
    /\ jobs' = [jobs EXCEPT ![p] = NoJobs]
    /\ queryLog' = [queryLog EXCEPT ![p] = <<>>]
    /\ outcome' = [outcome EXCEPT ![p] = NoOutcome]
    /\ UNCHANGED << callers, past, dest, staging, calls, appendJobs, defaults >>

\* ------------------------------------------------------------------------
\* The Append Loader: writeDfToBq
\* ------------------------------------------------------------------------

\* A caller calls writeDfToBq(data, ...).
CallAppend(p) ==
    /\ p \in callers
    /\ pc[p] = "idle"
    /\ calls < MaxCalls
    /\ \E data \in Datasets :
        inv' = [inv EXCEPT ![p] = [fn |-> "append", data |-> data, key_arg |-> <<>>,
                                   update_arg |-> <<>>, tag |-> calls + 1]]
    /\ calls' = calls + 1
    /\ pc' = [pc EXCEPT ![p] = "a_fetch"]
    /\ loc' = [loc EXCEPT ![p] = NoLocals]
    /\ jobs' = [jobs EXCEPT ![p] = NoJobs]
    /\ queryLog' = [queryLog EXCEPT ![p] = <<>>]
    /\ outcome' = [outcome EXCEPT ![p] = NoOutcome]
    /\ UNCHANGED << callers, past, dest, staging, appendJobs, callerLists, defaults >>

\* AppendJobConfig with the write disposition of the staging load: the load
\* replaces the rows of the destination table.
AppendJobConfigTruncates ==
    [create_disposition |-> "CREATE_IF_NEEDED", write_disposition |-> "WRITE_TRUNCATE",
     schema |-> None, autodetect |-> "None"]

\* Lines 27-31: the load job configuration of the Append Loader.
AppendJobConfig ==
    [create_disposition |-> "CREATE_IF_NEEDED", write_disposition |-> "WRITE_APPEND",
     schema |-> None, autodetect |-> "None"]

\* Lines 27-46: the job configuration and the schema handling.
AppendFetchSchema(p) ==
    /\ pc[p] = "a_fetch"
    /\ \/ /\ dest.exists
          /\ loc' = [loc EXCEPT ![p].table_schema = Some(PruneSchema(dest.fields, inv[p].data)),
                                ![p].job_config =
                                    SchemaFetched(AppendJobConfig,
                                                  Some(PruneSchema(dest.fields, inv[p].data)))]
       \/ loc' = [loc EXCEPT ![p].job_config = SchemaNotFetched(AppendJobConfig)]
    /\ pc' = [pc EXCEPT ![p] = "a_load_submit"]
    /\ UNCHANGED << callers, past, dest, staging, calls, appendJobs, inv, callerLists, defaults, jobs,
                    queryLog, outcome >>

\* Lines 48-57: the load job is created and returned without waiting for it.
AppendSubmitLoad(p) ==
    /\ pc[p] = "a_load_submit"
    /\ \E ts \in Stamps :
        LET job == [id |-> AppendJobId(ts), state |-> "running", errors |-> <<>>,
                    columns |-> inv[p].data, effect |-> "", read |-> {},
                    destination |-> TableName,
                    config |-> loc[p].job_config]
        IN  /\ jobs' = [jobs EXCEPT ![p].load = job]
            /\ appendJobs' = appendJobs @@ (inv[p].tag :> job)
            /\ outcome' = [outcome EXCEPT ![p] = [kind |-> "returned", message |-> "",
                                                  handles |-> << job.id >>]]
    /\ pc' = [pc EXCEPT ![p] = "done"]
    /\ UNCHANGED << callers, past, dest, staging, calls, inv, callerLists, defaults, loc, queryLog >>

\* The warehouse runs a load job of the Append Loader: WRITE_APPEND adds the
\* job's rows to the destination table, CREATE_IF_NEEDED creates it first when
\* it is absent; or the job fails.
RemoteAppendRun(t) ==
    /\ t \in DOMAIN appendJobs
    /\ appendJobs[t].state = "running"
    /\ \/ /\ dest' = LoadInto(dest, appendJobs[t], {t})
          /\ appendJobs' = [appendJobs EXCEPT ![t].state = "done", ![t].effect = "loaded"]
       \/ /\ \E errs \in ErrorLists :
                appendJobs' = [appendJobs EXCEPT ![t].state = "failed", ![t].errors = errs]
          /\ UNCHANGED dest
    /\ UNCHANGED << callers, past, staging, calls, pc, inv, callerLists, defaults, loc, jobs,
                    queryLog, outcome >>

\* ------------------------------------------------------------------------
\* Specification
\* ------------------------------------------------------------------------

Next ==
    \/ \E p \in Procs : CallMerge(p)
    \/ \E p \in Procs : ResolveColumns(p)
    \/ \E p \in Procs : FetchSchema(p)
    \/ \E p \in Procs : SubmitLoad(p)
    \/ \E p \in Procs : RemoteLoadRun(p)
    \/ \E p \in Procs : AwaitLoad(p)
    \/ \E p \in Procs : PrepareMerge(p)
    \/ \E p \in Procs : SubmitMerge(p)
    \/ \E p \in Procs : RemoteMergeRun(p)
    \/ \E p \in Procs : AwaitMerge(p)
    \/ \E p \in Procs : SubmitDrop(p)
    \/ \E p \in Procs : RemoteDropRun(p)
    \/ \E p \in Procs : AwaitDrop(p)
    \/ \E p \in Procs : Finish(p)
    \/ \E p \in Procs : CallAppend(p)
    \/ \E p \in Procs : AppendFetchSchema(p)
    \/ \E p \in Procs : AppendSubmitLoad(p)
    \/ \E t \in 1..MaxCalls : RemoteAppendRun(t)

Spec == Init /\ [][Next]_vars

\* ------------------------------------------------------------------------
\* Two programs that load into the same destination table
\* ------------------------------------------------------------------------

\* The largest number of invocations the two programs make together.
MaxOverlap == 2

\* The DataFrames the two programs pass.
SharedDatasets ==
    { << Col("id", FALSE, FALSE), Col("region", FALSE, FALSE), Col("amount", TRUE, FALSE) >> }

\* A program calls writeDfToBq_with_merging(data, ..., ['id'], ['amount']) for
\* the destination table, whatever the other program is doing.
CallMergeShared(p) ==
    /\ p \in callers
    /\ pc[p] = "idle"
    /\ calls < MaxOverlap
    /\ \E data \in SharedDatasets :
        inv' = [inv EXCEPT ![p] = [fn |-> "merge", data |-> data, key_arg |-> <<"id">>,
                                   update_arg |-> <<"amount">>, tag |-> calls + 1]]
    /\ callerLists' = [callerLists EXCEPT ![p] = [cols_to_check |-> <<"id">>,
                                                  cols_to_update |-> <<"amount">>]]
    /\ calls' = calls + 1
    /\ pc' = [pc EXCEPT ![p] = "m_resolve"]
    /\ loc' = [loc EXCEPT ![p] = NoLocals]
    /\ jobs' = [jobs EXCEPT ![p] = NoJobs]
    /\ queryLog' = [queryLog EXCEPT ![p] = <<>>]
    /\ outcome' = [outcome EXCEPT ![p] = NoOutcome]
    /\ UNCHANGED << callers, past, dest, staging, appendJobs, defaults >>

InitShared == callers = Procs /\ Start

NextShared ==
    \/ \E p \in Procs : CallMergeShared(p)
    \/ \E p \in Procs : ResolveColumns(p)
    \/ \E p \in Procs : FetchSchema(p)
    \/ \E p \in Procs : SubmitLoad(p)
    \/ \E p \in Procs : RemoteLoadRun(p)
    \/ \E p \in Procs : AwaitLoad(p)
    \/ \E p \in Procs : PrepareMerge(p)
    \/ \E p \in Procs : SubmitMerge(p)
    \/ \E p \in Procs : RemoteMergeRun(p)
    \/ \E p \in Procs : AwaitMerge(p)
    \/ \E p \in Procs : SubmitDrop(p)
    \/ \E p \in Procs : RemoteDropRun(p)
    \/ \E p \in Procs : AwaitDrop(p)
    \/ \E p \in Procs : Finish(p)

\* The two programs' invocations, in any interleaving.
SpecShared == InitShared /\ [][NextShared]_vars

\* ------------------------------------------------------------------------
\* A program that calls the Merge Loader run after run
\* ------------------------------------------------------------------------

\* The largest number of runs of the program.
MaxRuns == 2

\* The program's next run: it calls writeDfToBq_with_merging(data, ...,
\* cols_to_check, cols_to_update) with the DataFrame and the list objects it
\* built before its first run (an argument it left out then is left out again).
CallMergeAgain(p) ==
    /\ p \in callers
    /\ pc[p] = "idle"
    /\ calls < MaxRuns
    /\ IF past = <<>>
       THEN \E data \in Datasets, key \in KeyArgs, upd \in UpdateArgs :
                /\ inv' = [inv EXCEPT ![p] = [fn |-> "merge", data |-> data, key_arg |-> key,
                                              update_arg |-> upd, tag |-> calls + 1]]
                /\ callerLists' = [callerLists EXCEPT
                                      ![p] = [cols_to_check |-> key, cols_to_update |-> upd]]
       ELSE /\ inv' = [inv EXCEPT ![p] = [fn |-> "merge", data |-> past[1].data,
                                          key_arg |-> past[1].key_arg,
                                          update_arg |-> past[1].update_arg, tag |-> calls + 1]]
            /\ UNCHANGED callerLists
    /\ calls' = calls + 1
    /\ pc' = [pc EXCEPT ![p] = "m_resolve"]
    /\ loc' = [loc EXCEPT ![p] = NoLocals]
    /\ jobs' = [jobs EXCEPT ![p] = NoJobs]
    /\ queryLog' = [queryLog EXCEPT ![p] = <<>>]
    /\ outcome' = [outcome EXCEPT ![p] = NoOutcome]
    /\ UNCHANGED << callers, past, dest, staging, appendJobs, defaults >>

\* What the program keeps of a run that ended: its arguments, the staging
\* schema it read, the merge script it wrote (if any), how it ended and the
\* rows it left in the staging table.
RunRecord(p) ==
    [data |-> inv[p].data, key_arg |-> inv[p].key_arg, update_arg |-> inv[p].update_arg,
     temp_table_schema |-> loc[p].temp_table_schema,
     merge_query |-> loc[p].merge_query,
     outcome |-> outcome[p].kind,
     left_staged |-> staging.rows]

\* The run has ended (result or exception): the program keeps its DataFrame
\* and its lists for the next run.
FinishRun(p) ==
    /\ pc[p] = "done"
    /\ pc' = [pc EXCEPT ![p] = "idle"]
    /\ past' = Append(past, RunRecord(p))
    /\ inv' = [inv EXCEPT ![p] = NoInv]
    /\ loc' = [loc EXCEPT ![p] = NoLocals]
    /\ jobs' = [jobs EXCEPT ![p] = NoJobs]
    /\ queryLog' = [queryLog EXCEPT ![p] = <<>>]
    /\ outcome' = [outcome EXCEPT ![p] = NoOutcome]
    /\ UNCHANGED << callers, dest, staging, calls, appendJobs, callerLists, defaults >>

NextRuns ==
    \/ \E p \in Procs : CallMergeAgain(p)
    \/ \E p \in Procs : ResolveColumns(p)
    \/ \E p \in Procs : FetchSchema(p)
    \/ \E p \in Procs : SubmitLoad(p)
    \/ \E p \in Procs : RemoteLoadRun(p)
    \/ \E p \in Procs : AwaitLoad(p)
    \/ \E p \in Procs : PrepareMerge(p)
    \/ \E p \in Procs : SubmitMerge(p)
    \/ \E p \in Procs : RemoteMergeRun(p)
    \/ \E p \in Procs : AwaitMerge(p)
    \/ \E p \in Procs : SubmitDrop(p)
    \/ \E p \in Procs : RemoteDropRun(p)
    \/ \E p \in Procs : AwaitDrop(p)
    \/ \E p \in Procs : FinishRun(p)

\* One program, its runs one after the other.
SpecRuns == Init /\ [][NextRuns]_vars

\* ------------------------------------------------------------------------
\* Properties
\* ------------------------------------------------------------------------

MergeCalls == { p \in Procs : inv[p].fn = "merge" }

Kinds(log) == { log[i].kind : i \in 1..Len(log) }

\* C1: when the staging load job of a Merge Loader invocation has failed, the
\* invocation has passed no statement to bq_client.query (no merge job, no
\* drop job), it goes no further than waiting for the load, and it ends by
\* raising the load job's error.
C1_LoadFailureSubmitsNoQuery ==
    \A p \in MergeCalls :
        jobs[p].load.state = "failed" =>
            /\ queryLog[p] = <<>>
            /\ jobs[p].merge.state = "none"
            /\ jobs[p].delete.state = "none"
            /\ pc[p] \in {"m_load_wait", "done"}
            /\ pc[p] = "done" =>
                /\ outcome[p].kind = "raised"
                /\ outcome[p].message = JobErrorMessage(jobs[p].load)

C1_Witness ==
    \E p \in MergeCalls :
        /\ jobs[p].load.state = "failed"
        /\ pc[p] = "done"
        /\ outcome[p].kind = "raised"

\* C2: when the merge job has failed, the drop statement is not submitted
\* (no delete job, no DROP TABLE in the query log), the staging table still
\* exists, and the invocation ends by raising the merge job's error.
C2_MergeFailureSkipsDrop ==
    \A p \in MergeCalls :
        jobs[p].merge.state = "failed" =>
            /\ jobs[p].delete.state = "none"
            /\ Kinds(queryLog[p]) = {"merge"}
            /\ staging.exists
            /\ pc[p] \in {"m_merge_wait", "done"}
            /\ pc[p] = "done" =>
                /\ outcome[p].kind = "raised"
                /\ outcome[p].message = JobErrorMessage(jobs[p].merge)
                /\ outcome[p].handles = <<>>

C2_Witness ==
    \E p \in MergeCalls :
        /\ jobs[p].merge.state = "failed"
        /\ Len(jobs[p].merge.errors) = 1
        /\ pc[p] = "done"
        /\ outcome[p].kind = "raised"
        /\ staging.exists

\* C3: the merge statement is submitted only once the load job has succeeded,
\* the drop statement only once the merge job has succeeded, in that order,
\* and the three handles are returned only once all three jobs have
\* succeeded, as (load, merge, delete).
C3_StagesAreSequential ==
    \A p \in MergeCalls :
        /\ jobs[p].merge.state # "none" => jobs[p].load.state = "done"
        /\ jobs[p].delete.state # "none" => jobs[p].merge.state = "done"
        /\ Len(queryLog[p]) >= 1 => queryLog[p][1].kind = "merge" /\ jobs[p].load.state = "done"
        /\ Len(queryLog[p]) >= 2 => queryLog[p][2].kind = "drop" /\ jobs[p].merge.state = "done"
        /\ Len(queryLog[p]) <= 2
        /\ outcome[p].kind = "returned" =>
            /\ jobs[p].load.state = "done"
            /\ jobs[p].merge.state = "done"
            /\ jobs[p].delete.state = "done"
            /\ outcome[p].handles = << jobs[p].load.id, jobs[p].merge.id, jobs[p].delete.id >>

C3_Witness ==
    \E p \in MergeCalls :
        /\ outcome[p].kind = "returned"
        /\ Len(queryLog[p]) = 2
        /\ jobs[p].merge.effect = "committed"

\* A step of p's invocation: p moves, or one of its jobs does.
StepOf(p) == pc'[p] # pc[p] \/ jobs'[p] # jobs[p]

\* C4: once the merge of an invocation has committed, no later step of that
\* invocation changes the destination table, so the merged rows stay in it;
\* when the drop job then fails the invocation ends by raising the drop
\* job's error.
C4_CleanupFailureKeepsMerge ==
    /\ [](\A p \in MergeCalls :
            jobs[p].merge.effect = "committed" =>
                /\ inv[p].tag \in dest.rows
                /\ (jobs[p].delete.state = "failed" /\ pc[p] = "done") =>
                    /\ outcome[p].kind = "raised"
                    /\ outcome[p].message = JobErrorMessage(jobs[p].delete))
    /\ [][\A p \in Procs :
            (jobs[p].merge.effect = "committed" /\ StepOf(p)) => dest' = dest]_vars

C4_Witness ==
    \E p \in MergeCalls :
        /\ jobs[p].merge.effect = "committed"
        /\ jobs[p].delete.state = "failed"
        /\ pc[p] = "done"
        /\ outcome[p].kind = "raised"
        /\ inv[p].tag \in dest.rows

StartsWith(s, t) == Len(s) >= Len(t) /\ SubSeq(s, 1, Len(t)) = t

EndsWith(s, t) == Len(s) >= Len(t) /\ SubSeq(s, Len(s) - Len(t) + 1, Len(s)) = t

\* The first position at or after from where t occurs in s (0: nowhere).
Find(s, t, from) ==
    LET hits == { i \in from..(Len(s) - Len(t) + 1) : SubSeq(s, i, i + Len(t) - 1) = t }
    IN  IF hits = {} THEN 0 ELSE CHOOSE i \in hits : \A j \in hits : i <= j

\* The job id a caller reads in an error message: the text between
\* "ejecución de " and the colon that ends the line.
JobIdIn(message) ==
    LET mark == " errores durante la ejecución de "
        start == Find(message, mark, 1) + Len(mark)
        stop == Find(message, ":\n", start)
    IN  SubSeq(message, start, stop - 1)

\* The stage a caller reads in a job id: what precedes its "_" and 14-digit
\* time stamp.
StageOfJobId(id) ==
    LET base == SubSeq(id, 1, Len(id) - 15)
    IN  CASE EndsWith(base, "_temptable") -> "load"
          [] EndsWith(base, "_merge_data") -> "merge"
          [] EndsWith(base, "_delete_temp_data") -> "cleanup"
          [] OTHER -> "other"

\* The stage a caller reads in the exception's message alone.
ReportedStage(message) ==
    IF StartsWith(message, "Se han detectado ") /\ Find(message, ":\n", 1) > 0
    THEN StageOfJobId(JobIdIn(message))
    ELSE "other"

\* The stage whose job failed.
FailedStage(p) ==
    IF jobs[p].load.state = "failed" THEN "load"
    ELSE IF jobs[p].merge.state = "failed" THEN "merge"
    ELSE IF jobs[p].delete.state = "failed" THEN "cleanup"
    ELSE "other"

\* C5: the message of the exception a failing invocation raises names the
\* stage whose job failed: read from the message alone, the stage is "load",
\* "merge" or "cleanup" exactly when that job failed, and "cleanup" is only
\* reported after the merge job ended without error.
C5_ErrorNamesTheFailedStage ==
    \A p \in MergeCalls :
        (pc[p] = "done" /\ outcome[p].kind = "raised") =>
            /\ ReportedStage(outcome[p].message) = FailedStage(p)
            /\ ReportedStage(outcome[p].message) = "cleanup" => jobs[p].merge.state = "done"
            /\ ReportedStage(outcome[p].message) = "merge" => jobs[p].load.state = "done"

C5_Witness ==
    /\ \E p \in MergeCalls :
        /\ pc[p] = "done" /\ outcome[p].kind = "raised"
        /\ ReportedStage(outcome[p].message) = "cleanup"
        /\ jobs[p].delete.state = "failed"

\* The text of a merge script up to its ON clause.
MergeHead ==
    "\n    BEGIN\n        BEGIN TRANSACTION;\n"
    \o "            MERGE INTO 'proj.ds.tbl' AS target\n"
    \o "            USING 'proj.ds.tbl_temptable' AS source\n"
    \o "            ON "

\* The merge statements an invocation has submitted.
MergesOf(p) == { i \in 1..Len(queryLog[p]) : queryLog[p][i].kind = "merge" }

\* C6: the ON clause of a submitted MERGE statement is, in this order, one
\* conjunct target.c = source.c for each key column and one for each REPEATED
\* field of the staging schema that is no key column (in schema order), and
\* nothing else; the statement's text holds them joined by AND.
C6_OnClauseIsKeysThenRepeated ==
    \A p \in MergeCalls : \A i \in MergesOf(p) :
        LET keys == loc[p].cols_to_check.v
            schema == loc[p].temp_table_schema
            parts == queryLog[p][i].on_clause_parts
            extra == { k \in 1..Len(schema) :
                         schema[k].mode = "REPEATED" /\ schema[k].name \notin Range(keys) }
            rank(k) == Cardinality({ j \in extra : j <= k })
        IN  /\ Len(parts) = Len(keys) + Cardinality(extra)
            /\ \A k \in 1..Len(keys) :
                 parts[k] = "target." \o keys[k] \o " = source." \o keys[k]
            /\ \A k \in extra :
                 parts[Len(keys) + rank(k)]
                     = "target." \o schema[k].name \o " = source." \o schema[k].name
            /\ StartsWith(queryLog[p][i].query,
                          MergeHead \o Join("\nAND ", parts) \o "\n            WHEN MATCHED THEN")

C6_Witness ==
    \E p \in MergeCalls : \E i \in MergesOf(p) :
        /\ Len(loc[p].cols_to_check.v) = 2
        /\ \E k \in 1..Len(loc[p].temp_table_schema) :
             /\ loc[p].temp_table_schema[k].mode = "REPEATED"
             /\ loc[p].temp_table_schema[k].name \notin Range(loc[p].cols_to_check.v)
        /\ Len(queryLog[p][i].on_clause_parts) = 3

\* C7: every submitted MERGE statement has at least one conjunct in its ON
\* clause, and an invocation without key columns for a DataFrame without a
\* non-numeric column ends at once with the error for no key column, before
\* any job.
C7_NoKeysNoMerge ==
    \A p \in MergeCalls :
        /\ \A i \in MergesOf(p) :
             /\ Len(queryLog[p][i].on_clause_parts) >= 1
             /\ loc[p].on_clause # ""
        /\ (/\ inv[p].key_arg = <<>>
            /\ \A k \in 1..Len(inv[p].data) : inv[p].data[k].numeric
            /\ pc[p] # "m_resolve") =>
                /\ pc[p] = "done"
                /\ outcome[p].kind = "raised"
                /\ outcome[p].message = NoKeysMessage
                /\ queryLog[p] = <<>>
                /\ jobs[p] = NoJobs

C7_Witness ==
    \E p \in MergeCalls :
        /\ inv[p].key_arg = <<>>
        /\ pc[p] = "done"
        /\ outcome[p].kind = "raised"
        /\ outcome[p].message = NoKeysMessage

\* The names of the columns of a DataFrame that are (are not) numeric.
NumericNames(data) ==
    LET numeric(c) == c.numeric IN Names(SelectSeq(data, numeric))

NonNumericNames(data) ==
    LET other(c) == ~c.numeric IN Names(SelectSeq(data, other))

\* C8: when the caller passes neither cols_to_check nor cols_to_update, the
\* submitted MERGE statement matches on the non-numeric columns and its
\* UPDATE SET list assigns exactly the numeric columns, each once, under
\* their own names; for the columns id, region (strings) and amount (float)
\* the ON clause is target.id = source.id AND target.region = source.region
\* and the SET list is target.amount = source.amount.
C8_DefaultsSplitColumnsByDtype ==
    \A p \in MergeCalls : \A i \in MergesOf(p) :
        (inv[p].key_arg = <<>> /\ inv[p].update_arg = <<>>) =>
            /\ loc[p].cols_to_check.v = NonNumericNames(inv[p].data)
            /\ queryLog[p][i].cols_to_update = NumericNames(inv[p].data)
            /\ Names(inv[p].data) = <<"id", "region", "amount">> =>
                /\ queryLog[p][i].on_clause_parts
                     = << "target.id = source.id", "target.region = source.region" >>
                /\ Find(queryLog[p][i].query,
                        "UPDATE SET\n                target.amount = source.amount\n", 1) > 0

\* C9: in every submitted MERGE statement each column of the caller's
\* DataFrame is a key column or is assigned in the UPDATE SET list.
C9_EveryDatasetColumnIsKeyOrUpdated ==
    \A p \in MergeCalls : \A i \in MergesOf(p) :
        \A col \in Range(Names(inv[p].data)) :
            \/ col \in Range(loc[p].cols_to_check.v)
            \/ col \in Range(queryLog[p][i].cols_to_update)

\* The invocations (of either loader) whose load job was submitted.
Loading == { p \in Procs : jobs[p].load.state # "none" }

\* The live fields whose name is a DataFrame column, in live order.
LiveFieldsOf(data) ==
    LET known(f) == \E k \in 1..Len(data) : data[k].name = f.name
    IN  SelectSeq(dest.fields, known)

CoversColumns(job) ==
    Range(Names(job.columns)) \subseteq Range(Names(job.config.schema.fields))

FetchFailed ==
    { p \in Procs : /\ inv[p].fn # ""
                    /\ pc[p] \notin {"m_resolve", "m_fetch", "a_fetch"}
                    /\ outcome[p].message # NoKeysMessage
                    /\ ~loc[p].table_schema.some }

\* C11: an invocation of either loader whose fetch of the live schema failed
\* goes on: its job configuration has autodetect on and CREATE_IF_NEEDED, it
\* is about to submit its load job or has submitted it with that
\* configuration and no declared schema, and if it raised, it raised the
\* error of one of its jobs (or of line 162), never the failure of the fetch.
C11_SchemaFetchFailureIsNotRaised ==
    \A p \in FetchFailed :
        /\ loc[p].job_config.autodetect = "True"
        /\ loc[p].job_config.create_disposition = "CREATE_IF_NEEDED"
        /\ \/ pc[p] \in {"m_load_submit", "a_load_submit"}
           \/ /\ jobs[p].load.state # "none"
              /\ jobs[p].load.config.autodetect = "True"
              /\ jobs[p].load.config.create_disposition = "CREATE_IF_NEEDED"
              /\ ~jobs[p].load.config.schema.some
        /\ outcome[p].kind = "raised" =>
            outcome[p].message \in { JobErrorMessage(jobs[p].load), JobErrorMessage(jobs[p].merge),
                                     JobErrorMessage(jobs[p].delete), BroadcastMessage }
        /\ (inv[p].fn = "append" /\ pc[p] = "done") => outcome[p].kind = "returned"

C11_Witness ==
    \E p \in FetchFailed :
        /\ ~dest.exists
        /\ inv[p].fn = "append"
        /\ outcome[p].kind = "returned"
        /\ jobs[p].load.config.autodetect = "True"
        /\ jobs[p].load.config.create_disposition = "CREATE_IF_NEEDED"

\* The invocations of the Append Loader.
AppendCalls == { p \in Procs : inv[p].fn = "append" }

\* C12: an Append Loader invocation passes no statement to bq_client.query
\* and never raises; when it has returned it has created exactly one load
\* job, on the destination table, with WRITE_APPEND and CREATE_IF_NEEDED, and
\* has handed that job to its caller whatever state the job is in (running,
\* done or failed); a step of that job leaves the staging table alone and
\* leaves the rows and fields the destination table already held in it.
C12_AppendReturnsItsLoadJobAtOnce ==
    /\ [](\A p \in AppendCalls :
            /\ queryLog[p] = <<>>
            /\ jobs[p].merge = NoJob /\ jobs[p].delete = NoJob
            /\ outcome[p].kind # "raised"
            /\ Cardinality(DOMAIN appendJobs) <= calls
            /\ pc[p] # "done" => inv[p].tag \notin DOMAIN appendJobs
            /\ pc[p] = "done" =>
                /\ inv[p].tag \in DOMAIN appendJobs
                /\ appendJobs[inv[p].tag].id = jobs[p].load.id
                /\ appendJobs[inv[p].tag].columns = inv[p].data
                /\ appendJobs[inv[p].tag].destination = TableName
                /\ appendJobs[inv[p].tag].config.write_disposition = "WRITE_APPEND"
                /\ appendJobs[inv[p].tag].config.create_disposition = "CREATE_IF_NEEDED"
                /\ appendJobs[inv[p].tag].state \in {"running", "done", "failed"}
                /\ outcome[p] = [kind |-> "returned", message |-> "",
                                 handles |-> << jobs[p].load.id >>])
    /\ [][\A t \in DOMAIN appendJobs :
            appendJobs'[t] # appendJobs[t] =>
                /\ staging' = staging
                /\ dest.exists => (dest.rows \subseteq dest'.rows /\ dest'.fields = dest.fields)]_vars

\* The invocation has returned with its job submitted (hence running) and the
\* job has failed afterwards, the destination table being as it was.
C12_Witness ==
    \E p \in AppendCalls :
        /\ pc[p] = "done"
        /\ outcome[p].kind = "returned"
        /\ appendJobs[inv[p].tag].state = "failed"
        /\ dest.exists /\ dest.rows = {0}


\* C13: with two programs calling the Merge Loader for one destination table,
\* every staging load goes to the one table <table>_temptable, and what a
\* committed merge has read from it is the rows of one invocation's load: the
\* load that completed last before the merge ran, which need not be its own.
C13_StagingTableIsShared ==
    \A p \in MergeCalls :
        /\ jobs[p].load.state # "none" =>
            /\ jobs[p].load.destination = TempTableName
            /\ jobs[p].load.config.write_disposition = "WRITE_TRUNCATE"
        /\ jobs[p].merge.effect = "committed" =>
            \E t \in 1..calls : jobs[p].merge.read = {t}
        /\ staging.exists => \E t \in 1..calls : staging.rows = {t}

\* p's staged rows were replaced by q's load before p's merge ran: p merged
\* q's rows, dropped the staging table and returned its three jobs with none
\* of its own rows in the destination table, and q, whose load had
\* succeeded, found no staging table to merge from and raised.
C13_Witness ==
    \E p, q \in MergeCalls :
        /\ p # q
        /\ jobs[p].load.effect = "loaded" /\ jobs[q].load.effect = "loaded"
        /\ jobs[p].merge.effect = "committed"
        /\ jobs[p].merge.read = {inv[q].tag}
        /\ jobs[p].delete.effect = "dropped"
        /\ outcome[p].kind = "returned"
        /\ inv[p].tag \notin dest.rows
        /\ ~staging.exists
        /\ jobs[q].merge.effect # "committed"
        /\ outcome[q].kind = "raised"


\* C14: two runs of the Merge Loader that were given the same DataFrame, the
\* same destination, the same cols_to_check and cols_to_update arguments (the
\* same list objects, or both left out) and that read the same staging schema
\* write the same merge script, character for character.
C14_SameInputsSameMergeText ==
    \A p \in MergeCalls : \A i \in 1..Len(past) :
        (/\ loc[p].merge_query # ""
         /\ past[i].merge_query # ""
         /\ past[i].data = inv[p].data
         /\ past[i].key_arg = inv[p].key_arg
         /\ past[i].update_arg = inv[p].update_arg
         /\ past[i].temp_table_schema = loc[p].temp_table_schema)
            => loc[p].merge_query = past[i].merge_query


\* C15: an invocation that raised the error for no key column has made no
\* remote call: no live schema was fetched (its job configuration was not
\* even built), it has no load, merge or drop job and passed no statement to
\* bq_client.query; the step that raises leaves the destination table and the
\* staging table as they were.
C15_NoKeysErrorPrecedesRemoteCalls ==
    /\ [](\A p \in MergeCalls :
            outcome[p].message = NoKeysMessage =>
                /\ pc[p] = "done" /\ outcome[p].kind = "raised"
                /\ ~loc[p].table_schema.some
                /\ loc[p].job_config = NoJob.config
                /\ jobs[p] = NoJobs
                /\ queryLog[p] = <<>>)
    /\ [][\A p \in Procs :
            (pc[p] = "m_resolve" /\ pc'[p] = "done") =>
                /\ outcome'[p].message = NoKeysMessage
                /\ dest' = dest
                /\ staging' = staging]_vars

C15_Witness ==
    \E p \in MergeCalls :
        /\ outcome[p] = [kind |-> "raised", message |-> NoKeysMessage, handles |-> <<>>]
        /\ Names(inv[p].data) = <<"amount", "qty">>
        /\ jobs[p] = NoJobs
        /\ dest.exists /\ dest.rows = {0}
        /\ staging = NoTable


\* C16: in the runs of one program, one after the other, the staging table
\* holds exactly the rows of the running invocation's own DataFrame from the
\* moment its load has succeeded until it is dropped, whatever an earlier run
\* left in it: these are the rows its merge job finds while it runs and the
\* rows a committed merge has read.
C16_MergeReadsOwnStagedRows ==
    \A p \in MergeCalls :
        /\ (jobs[p].load.effect = "loaded" /\ jobs[p].delete.effect # "dropped") =>
            /\ staging.exists
            /\ staging.rows = {inv[p].tag}
            /\ staging.fields = LoadedFields(jobs[p].load)
        /\ jobs[p].merge.state = "running" => staging.rows = {inv[p].tag}
        /\ jobs[p].merge.effect = "committed" => jobs[p].merge.read = {inv[p].tag}

\* The first run's merge failed and left its rows in the staging table; the
\* second run's merge has read the second run's rows.
C16_Witness ==
    /\ Len(past) = 1
    /\ past[1].merge_query # ""
    /\ past[1].outcome = "raised"
    /\ past[1].left_staged = {1}
    /\ \E p \in MergeCalls :
        /\ inv[p].tag = 2
        /\ jobs[p].merge.effect = "committed"
        /\ jobs[p].merge.read = {2}


\* C17: an invocation submits the DROP TABLE of the staging table only when
\* the MERGE of its script was committed (not rolled back by the script's
\* EXCEPTION handler).
C17_DropOnlyAfterCommittedMerge ==
    \A p \in MergeCalls :
        (jobs[p].delete.state # "none" \/ "drop" \in Kinds(queryLog[p])) =>
            jobs[p].merge.effect = "committed"


\* C18: every column a submitted MERGE statement names, in a conjunct of its
\* ON clause or in its UPDATE SET list, is a column of the DataFrame
\* projection the same invocation loaded into the staging table.
C18_MergeNamesOnlyStagedColumns ==
    \A p \in MergeCalls : \A i \in MergesOf(p) :
        LET staged == Range(Names(jobs[p].load.columns))
            parts == queryLog[p][i].on_clause_parts
        IN  /\ \A k \in 1..Len(parts) : \E col \in staged : parts[k] = Equality(col)
            /\ Range(queryLog[p][i].cols_to_update) \subseteq staged


\* C19: an invocation leaves the caller's objects as they were: the
\* cols_to_check and cols_to_update lists the caller passed hold the elements
\* they held at the call, and the default [] lists of the function are
\* still empty.
C19_CallerInputsUnchanged ==
    /\ defaults = NoLists
    /\ \A p \in MergeCalls :
        /\ callerLists[p].cols_to_check = inv[p].key_arg
        /\ callerLists[p].cols_to_update = inv[p].update_arg

=============================================================================
